---- MODULE Spec2Model ----
(***************************************************************************)
(* flareupd: a daemon that keeps the A and AAAA record of one DNS name on  *)
(* Cloudflare equal to the host's external addresses.                      *)
(*                                                                         *)
(* The model follows main() of the two-lane program: startup validation of *)
(* the two updaters, the reconciliation loop, FlareUpdater.UpdateContent   *)
(* with its three network calls, and the select on the ticker and on the   *)
(* signal channel.  Strings are sequences of tokens, so that TrimSpace and *)
(* Atoi are computed and not assumed.  The remote zone, the address        *)
(* sources, the timer and the signals are the environment.                 *)
(*                                                                         *)
(* Spec is the two-lane program under a valid configuration, ConfigSpec is *)
(* the same program from the reading of its environment, and SingleSpec is *)
(* the single-record program of main.go.                                   *)
(***************************************************************************)
EXTENDS Integers, Sequences, FiniteSets, TLC

VARIABLES
    pc,          \* position of main(): config, connect, fatal, valid4, valid6,
                 \*   loop, range, fetch, list, scan, select, blocked, cancel,
                 \*   exited
    env,         \* the environment of the process: variable name -> value
    refresh,     \* main's local refresh, in seconds
    updaters,    \* the slice built at lines 100-112
    idx,         \* index of the range loop of line 115
    ip,          \* the local ip of Valid and of UpdateContent
    fetchErr,    \* FetchIp returned an error to the call in progress
    existing,    \* UpdateContent's local existing
    calls,       \* provider calls made by the UpdateContent call in progress
    zone,        \* the records of the zone at the provider
    tickReady,   \* a tick is buffered in the ticker channel (capacity 1)
    sigPending,  \* a signal is buffered in the cancel channel (capacity 1)
    exitCode,    \* status given to os.Exit, NoExit while the process runs
    valid,       \* what Valid() returned for each lane at startup
    result,      \* what each lane's latest UpdateContent returned
    attempted,   \* lanes (by type) whose UpdateContent was called in this pass
    pass,        \* which pass the loop is in: none, first, later
    received,    \* a tick has been received from the ticker
    sigAtWait    \* the signal was handed to the select while it was blocked

vars == <<pc, env, refresh, updaters, idx, ip, fetchErr, existing, calls, zone, tickReady, sigPending,
          exitCode, valid, result, attempted, pass, received, sigAtWait>>

-----------------------------------------------------------------------------
(* Bounds of the model *)

\* initial zones hold at most this many records
MaxInitRecords == 2

-----------------------------------------------------------------------------
(* Strings: sequences of tokens; a token is whitespace or a word *)

Whitespace == {" ", "\n"}

RECURSIVE TrimLeft(_)
TrimLeft(s) ==
    IF s # <<>> /\ Head(s) \in Whitespace THEN TrimLeft(Tail(s)) ELSE s

RECURSIVE TrimRight(_)
TrimRight(s) ==
    IF s # <<>> /\ s[Len(s)] \in Whitespace
    THEN TrimRight(SubSeq(s, 1, Len(s) - 1))
    ELSE s

\* strings.TrimSpace
TrimSpace(s) == TrimRight(TrimLeft(s))

\* the literals net.ParseIP accepts, of either family
IPLiterals == {<<"203.0.113.4">>, <<"2001:db8::1">>}

\* net.ParseIP(s) # nil
ParseIP(s) == s \in IPLiterals

\* response bodies an address source can send
Bodies == {<<"203.0.113.4", "\n">>,
           <<" ", "2001:db8::1">>,
           <<"<html>">>}

\* IpFetcher.FetchIp: the transport fails, or the trimmed body is returned
FetchIp == {[err |-> TRUE, ip |-> <<>>]} \cup
           {[err |-> FALSE, ip |-> TrimSpace(b)] : b \in Bodies}

-----------------------------------------------------------------------------
(* The environment and the required variables of lines 24-29 *)

EnvVarCfApiKey == "CF_API_KEY"
EnvVarCfEmail == "CF_API_EMAIL"
EnvVarCfZoneName == "CF_ZONE_NAME"
EnvVarRefresh == "REFRESH"
EnvVarEntry == "ENTRY"

\* the variables main reads with requiredEnvVariable, in the order it reads
Required == <<EnvVarCfApiKey, EnvVarCfEmail, EnvVarCfZoneName, EnvVarRefresh,
              EnvVarEntry>>

RequiredNames == {Required[i] : i \in DOMAIN Required}

\* values REFRESH may be set to, as sequences of characters
RefreshValues == {<<"3", "0">>, <<"0">>, <<"-", "5">>, <<"3", "s">>, <<>>}

\* the environments the daemon may be started in: any subset of the required
\* variables is set
Envs ==
    {[v \in S |-> IF v = EnvVarRefresh THEN r ELSE <<"x">>] :
        S \in SUBSET RequiredNames, r \in RefreshValues}

\* an environment with every required variable set and REFRESH=30
ValidEnv == [v \in RequiredNames |-> IF v = EnvVarRefresh THEN <<"3", "0">> ELSE <<"x">>]

\* os.LookupEnv
LookupEnv(e, v) ==
    IF v \in DOMAIN e THEN [ok |-> TRUE, val |-> e[v]] ELSE [ok |-> FALSE, val |-> <<>>]

DigitValue ==
    [c \in {"0", "1", "2", "3", "4", "5", "6", "7", "8", "9"} |->
        CASE c = "0" -> 0 [] c = "1" -> 1 [] c = "2" -> 2 [] c = "3" -> 3
          [] c = "4" -> 4 [] c = "5" -> 5 [] c = "6" -> 6 [] c = "7" -> 7
          [] c = "8" -> 8 [] c = "9" -> 9]

\* the value of a sequence of decimal digits
RECURSIVE Decimal(_)
Decimal(s) ==
    IF s = <<>> THEN 0
    ELSE 10 * Decimal(SubSeq(s, 1, Len(s) - 1)) + DigitValue[s[Len(s)]]

\* strconv.Atoi: an optional sign and one or more decimal digits, anything
\* else is an error
Atoi(s) ==
    LET signed == s # <<>> /\ Head(s) \in {"+", "-"}
        digits == IF signed THEN Tail(s) ELSE s
    IN  IF digits = <<>> \/ \E i \in DOMAIN digits : digits[i] \notin DOMAIN DigitValue
        THEN [err |-> TRUE, n |-> 0]
        ELSE [err |-> FALSE,
              n |-> IF signed /\ Head(s) = "-" THEN 0 - Decimal(digits)
                    ELSE Decimal(digits)]

\* requiredEnvVariable reaches log.Fatalf: the variable is not set
requiredEnvVariableFatal(e, v) == ~LookupEnv(e, v).ok

\* requiredEnvVariableTime: fatal when the variable is not set or Atoi
\* returns an error, otherwise the number, in seconds
requiredEnvVariableTime(e, v) ==
    IF requiredEnvVariableFatal(e, v) \/ Atoi(LookupEnv(e, v).val).err
    THEN [fatal |-> TRUE, t |-> 0]
    ELSE [fatal |-> FALSE, t |-> Atoi(LookupEnv(e, v).val).n]

-----------------------------------------------------------------------------
(* Configuration and the two updaters *)

zoneId == "zone1"
Name == "home.example.com"
OtherName == "www.example.com"

ip4Updater == [Type |-> "A", ZoneId |-> zoneId, Name |-> Name]
ip6Updater == [Type |-> "AAAA", ZoneId |-> zoneId, Name |-> Name]

Types == {"A", "AAAA"}

NoExit == -1
NoId == 0

Lanes == <<ip4Updater, ip6Updater>>

-----------------------------------------------------------------------------
(* The record provider: the zone is a sequence of records in the order the *)
(* provider returns them                                                   *)

DNSRecord(id, type, name, content) ==
    [ID |-> id, Type |-> type, Name |-> name, Content |-> content]

\* a listing that ignores the type filter and returns the whole zone
DNSRecordsUnfiltered(z, filter) == z

\* Api.DNSRecords(zone, DNSRecord{Type: t}): the records of the filter's type
DNSRecords(z, filter) == SelectSeq(z, LAMBDA r : r.Type = filter.Type)

\* Api.UpdateDNSRecord(zone, id, record): overwrite the record with that id
UpdateDNSRecord(z, id, rec) ==
    [i \in DOMAIN z |-> IF z[i].ID = id
                        THEN DNSRecord(id, rec.Type, rec.Name, rec.Content)
                        ELSE z[i]]

\* Api.CreateDNSRecord(zone, record): the provider assigns the identifier
CreateDNSRecord(z, rec) ==
    Append(z, DNSRecord(Len(z) + 1, rec.Type, rec.Name, rec.Content))

\* one entry of the call log
Call(op, zid, rec, ok) ==
    [op |-> op, ZoneId |-> zid, ID |-> rec.ID, Type |-> rec.Type,
     Name |-> rec.Name, Content |-> rec.Content, ok |-> ok]

\* contents of the records the zone may hold when the daemon starts
InitContents == {<<"203.0.113.4">>, <<"2001:db8::1">>}

InitRecords ==
    {[Type |-> t, Name |-> Name, Content |-> c] : t \in Types, c \in InitContents}
    \cup {[Type |-> "A", Name |-> OtherName, Content |-> <<"203.0.113.4">>]}

InitZones ==
    UNION {{[i \in 1..k |-> DNSRecord(i, s[i].Type, s[i].Name, s[i].Content)] :
               s \in [1..k -> InitRecords]} : k \in 0..MaxInitRecords}

-----------------------------------------------------------------------------
(* FlareUpdater *)

\* Valid without the parse of lines 147-152
ValidNoParse(r) == ~r.err

\* FlareUpdater.Valid: the fetch succeeded and the result parses as an IP
Valid(r) == ~r.err /\ ParseIP(r.ip)

\* Scan without the comparison of line 170: a record named name is always
\* updated
RECURSIVE ScanIgnoreContent(_, _, _)
ScanIgnoreContent(es, name, addr) ==
    IF es = <<>> THEN [op |-> "create", ID |-> NoId]
    ELSE IF Head(es).Name = name
         THEN [op |-> "update", ID |-> Head(es).ID]
         ELSE ScanIgnoreContent(Tail(es), name, addr)

\* Scan without the returns inside the loop: the last record named name
\* decides, as in the loop of the single-record program
RECURSIVE ScanLast(_, _, _)
ScanLast(es, name, addr) ==
    IF es = <<>> THEN [op |-> "create", ID |-> NoId]
    ELSE LET rest == ScanLast(Tail(es), name, addr) IN
         IF rest.op # "create" THEN rest
         ELSE IF Head(es).Name = name
              THEN IF Head(es).Content = addr
                   THEN [op |-> "none", ID |-> Head(es).ID]
                   ELSE [op |-> "update", ID |-> Head(es).ID]
              ELSE rest

\* Scan with a stale record replaced by a new one: create where line 173
\* updates
RECURSIVE ScanCreateOnMismatch(_, _, _)
ScanCreateOnMismatch(es, name, addr) ==
    IF es = <<>> THEN [op |-> "create", ID |-> NoId]
    ELSE IF Head(es).Name = name
         THEN IF Head(es).Content = addr
              THEN [op |-> "none", ID |-> Head(es).ID]
              ELSE [op |-> "create", ID |-> NoId]
         ELSE ScanCreateOnMismatch(Tail(es), name, addr)

\* the loop of UpdateContent over existing: what the first record named
\* name decides
RECURSIVE Scan(_, _, _)
Scan(es, name, addr) ==
    IF es = <<>> THEN [op |-> "create", ID |-> NoId]
    ELSE IF Head(es).Name = name
         THEN IF Head(es).Content = addr
              THEN [op |-> "none", ID |-> Head(es).ID]
              ELSE [op |-> "update", ID |-> Head(es).ID]
         ELSE Scan(Tail(es), name, addr)

\* the updater the range loop is at
cur == updaters[idx]


-----------------------------------------------------------------------------
(* main *)

\* the process as it is started: nothing of main() has run
ConfigInit ==
    /\ pc = "config"
    /\ env \in Envs
    /\ refresh = 0
    /\ updaters = <<>>
    /\ idx = 0
    /\ ip = <<>>
    /\ fetchErr = FALSE
    /\ existing = <<>>
    /\ calls = <<>>
    /\ zone \in InitZones
    /\ tickReady = FALSE
    /\ sigPending = FALSE
    /\ exitCode = NoExit
    /\ valid = [t \in Types |-> "unknown"]
    /\ result = [t \in Types |-> "none"]
    /\ attempted = {}
    /\ pass = "none"
    /\ received = FALSE
    /\ sigAtWait = FALSE

\* log.Fatalf: the process ends with status 1
Fatal ==
    /\ pc' = "fatal"
    /\ exitCode' = 1

\* lines 59-66: the required variables are read in order; the first one that
\* is not set, or a REFRESH that Atoi rejects, ends the process
LoadConfig ==
    /\ pc = "config"
    /\ IF \/ \E i \in DOMAIN Required : requiredEnvVariableFatal(env, Required[i])
          \/ requiredEnvVariableTime(env, EnvVarRefresh).fatal
       THEN Fatal /\ refresh' = refresh
       ELSE /\ refresh' = requiredEnvVariableTime(env, EnvVarRefresh).t
            /\ pc' = "connect"
            /\ exitCode' = exitCode
    /\ UNCHANGED <<env, updaters, idx, ip, fetchErr, existing, calls, zone, tickReady,
                   sigPending, valid, result, attempted, pass, received, sigAtWait>>

\* lines 68-82: the client is built and the zone is looked up, either may
\* fail and end the process; then the ticker and the signal channel are set up
Connect ==
    /\ pc = "connect"
    /\ \E ok \in BOOLEAN :
        IF ok THEN pc' = "valid4" /\ exitCode' = exitCode ELSE Fatal
    /\ UNCHANGED <<env, refresh, updaters, idx, ip, fetchErr, existing, calls, zone,
                   tickReady, sigPending, valid, result, attempted, pass, received,
                   sigAtWait>>

\* main() after lines 58-98 under a configuration that passed them: every
\* required variable is set and REFRESH is 30
Init ==
    /\ pc = "valid4"
    /\ env = ValidEnv
    /\ refresh = requiredEnvVariableTime(ValidEnv, EnvVarRefresh).t
    /\ updaters = <<>>
    /\ idx = 0
    /\ ip = <<>>
    /\ fetchErr = FALSE
    /\ existing = <<>>
    /\ calls = <<>>
    /\ zone \in InitZones
    /\ tickReady = FALSE
    /\ sigPending = FALSE
    /\ exitCode = NoExit
    /\ valid = [t \in Types |-> "unknown"]
    /\ result = [t \in Types |-> "none"]
    /\ attempted = {}
    /\ pass = "none"
    /\ received = FALSE
    /\ sigAtWait = FALSE

\* lines 102-106 with the append outside the if: the updater is kept although
\* Valid() returned false
ValidIp4AppendAlways ==
    /\ pc = "valid4"
    /\ \E r \in FetchIp :
        /\ updaters' = Append(updaters, ip4Updater)
        /\ valid' = [valid EXCEPT !["A"] = IF Valid(r) THEN "yes" ELSE "no"]
        /\ ip' = r.ip /\ fetchErr' = r.err
    /\ pc' = "valid6"
    /\ UNCHANGED <<env, refresh, idx, existing, calls, zone, tickReady, sigPending, exitCode,
                   result, pass, received, sigAtWait, attempted>>

\* lines 102-106: the IPv4 updater is appended if it is valid
ValidIp4 ==
    /\ pc = "valid4"
    /\ \E r \in FetchIp :
        /\ updaters' = IF Valid(r) THEN Append(updaters, ip4Updater) ELSE updaters
        /\ valid' = [valid EXCEPT !["A"] = IF Valid(r) THEN "yes" ELSE "no"]
        /\ ip' = r.ip /\ fetchErr' = r.err
    /\ pc' = "valid6"
    /\ UNCHANGED <<env, refresh, idx, existing, calls, zone, tickReady, sigPending, exitCode,
                   result, pass, received, sigAtWait, attempted>>

\* lines 108-112 followed by a loop that waits before its first pass
ValidIp6ThenWait ==
    /\ pc = "valid6"
    /\ \E r \in FetchIp :
        /\ updaters' = IF Valid(r) THEN Append(updaters, ip6Updater) ELSE updaters
        /\ valid' = [valid EXCEPT !["AAAA"] = IF Valid(r) THEN "yes" ELSE "no"]
        /\ ip' = r.ip /\ fetchErr' = r.err
    /\ pc' = "select"
    /\ UNCHANGED <<env, refresh, idx, existing, calls, zone, tickReady, sigPending, exitCode,
                   result, pass, received, sigAtWait, attempted>>

\* lines 108-112 with the IPv6 updater put in front of the slice
ValidIp6Prepend ==
    /\ pc = "valid6"
    /\ \E r \in FetchIp :
        /\ updaters' = IF Valid(r) THEN <<ip6Updater>> \o updaters ELSE updaters
        /\ valid' = [valid EXCEPT !["AAAA"] = IF Valid(r) THEN "yes" ELSE "no"]
        /\ ip' = r.ip /\ fetchErr' = r.err
    /\ pc' = "loop"
    /\ UNCHANGED <<env, refresh, idx, existing, calls, zone, tickReady, sigPending, exitCode,
                   result, pass, received, sigAtWait, attempted>>

\* lines 108-112: the IPv6 updater is appended if it is valid
ValidIp6 ==
    /\ pc = "valid6"
    /\ \E r \in FetchIp :
        /\ updaters' = IF Valid(r) THEN Append(updaters, ip6Updater) ELSE updaters
        /\ valid' = [valid EXCEPT !["AAAA"] = IF Valid(r) THEN "yes" ELSE "no"]
        /\ ip' = r.ip /\ fetchErr' = r.err
    /\ pc' = "loop"
    /\ UNCHANGED <<env, refresh, idx, existing, calls, zone, tickReady, sigPending, exitCode,
                   result, pass, received, sigAtWait, attempted>>

\* line 114: the body of the outer loop begins a pass
BeginPass ==
    /\ pc = "loop"
    /\ pc' = "range"
    /\ idx' = 0
    /\ pass' = IF pass = "none" THEN "first" ELSE "later"
    /\ attempted' = {}
    /\ UNCHANGED <<env, refresh, updaters, ip, existing, calls, zone, tickReady, sigPending,
                   exitCode, valid, result, received, sigAtWait, fetchErr>>

\* the range loop passing over an updater whose last UpdateContent failed
RangeSkipFailed ==
    /\ pc = "range"
    /\ IF idx < Len(updaters)
       THEN /\ idx' = idx + 1
            /\ pc' = IF result[updaters[idx + 1].Type] = "err" THEN "range" ELSE "fetch"
       ELSE idx' = idx /\ pc' = "select"
    /\ ip' = <<>> /\ fetchErr' = FALSE /\ existing' = <<>> /\ calls' = <<>>
    /\ UNCHANGED <<env, refresh, updaters, zone, tickReady, sigPending, exitCode, valid, result,
                   pass, received, sigAtWait, attempted>>

\* the range loop left at the first UpdateContent that fails
RangeStopOnError ==
    /\ pc = "range"
    /\ IF idx < Len(updaters) /\ (idx = 0 \/ result[updaters[idx].Type] # "err")
       THEN idx' = idx + 1 /\ pc' = "fetch"
       ELSE idx' = idx /\ pc' = "select"
    /\ ip' = <<>> /\ fetchErr' = FALSE /\ existing' = <<>> /\ calls' = <<>>
    /\ UNCHANGED <<env, refresh, updaters, zone, tickReady, sigPending, exitCode, valid, result,
                   pass, received, sigAtWait, attempted>>

\* line 115: the range loop takes the next updater, or ends
Range ==
    /\ pc = "range"
    /\ IF idx < Len(updaters)
       THEN idx' = idx + 1 /\ pc' = "fetch"
       ELSE idx' = idx /\ pc' = "select"
    /\ ip' = <<>> /\ fetchErr' = FALSE /\ existing' = <<>> /\ calls' = <<>>
    /\ UNCHANGED <<env, refresh, updaters, zone, tickReady, sigPending, exitCode, valid, result,
                   pass, received, sigAtWait, attempted>>

\* lines 116-118: UpdateContent returned; an error is logged, nothing else
Return(err) ==
    /\ pc' = "range"
    /\ result' = [result EXCEPT ![cur.Type] = IF err THEN "err" ELSE "ok"]

\* UpdateContentFetch without the error check of lines 159-161
UpdateContentFetchIgnoreErr ==
    /\ pc = "fetch"
    /\ \E r \in FetchIp : ip' = r.ip /\ fetchErr' = r.err
    /\ pc' = "list"
    /\ attempted' = attempted \cup {cur.Type}
    /\ UNCHANGED <<env, refresh, updaters, idx, existing, calls, zone, tickReady, sigPending,
                   exitCode, valid, result, pass, received, sigAtWait>>

\* lines 158-161: the address is fetched
UpdateContentFetch ==
    /\ pc = "fetch"
    /\ \E r \in FetchIp :
        /\ ip' = r.ip /\ fetchErr' = r.err
        /\ IF r.err THEN Return(TRUE)
                    ELSE pc' = "list" /\ result' = result
    /\ attempted' = attempted \cup {cur.Type}
    /\ UNCHANGED <<env, refresh, updaters, idx, existing, calls, zone, tickReady, sigPending,
                   exitCode, valid, pass, received, sigAtWait>>

\* line 163: the filter given to DNSRecords
filter(f) == DNSRecord(NoId, f.Type, "", <<>>)

\* UpdateContentList without the error check of lines 164-166
UpdateContentListIgnoreErr ==
    /\ pc = "list"
    /\ \E ok \in BOOLEAN :
        /\ calls' = Append(calls, Call("list", cur.ZoneId, filter(cur), ok))
        /\ existing' = IF ok THEN DNSRecords(zone, filter(cur)) ELSE <<>>
    /\ pc' = "scan"
    /\ UNCHANGED <<env, refresh, updaters, idx, ip, zone, tickReady, sigPending, exitCode, valid,
                   result, pass, received, sigAtWait, attempted, fetchErr>>

\* lines 163-166: the records of the updater's type are listed
UpdateContentList ==
    /\ pc = "list"
    /\ \E ok \in BOOLEAN :
        /\ calls' = Append(calls, Call("list", cur.ZoneId, filter(cur), ok))
        /\ IF ok
           THEN existing' = DNSRecords(zone, filter(cur)) /\ pc' = "scan"
                /\ result' = result
           ELSE existing' = existing /\ Return(TRUE)
    /\ UNCHANGED <<env, refresh, updaters, idx, ip, zone, tickReady, sigPending, exitCode, valid,
                   pass, received, sigAtWait, attempted, fetchErr>>

\* lines 181-187: the record update() sends
update(f, id, addr) == DNSRecord(id, f.Type, f.Name, addr)

\* create() with the record type fixed to A, as the single-record program
\* has it
createTypeA(f, addr) == DNSRecord(NoId, "A", f.Name, addr)

\* lines 193-198: the record create() sends
create(f, addr) == DNSRecord(NoId, f.Type, f.Name, addr)

\* UpdateContentScan with the error of update() and create() dropped: the
\* call returns nil whatever the provider answered
UpdateContentScanSwallowErr ==
    /\ pc = "scan"
    /\ LET d == Scan(existing, cur.Name, ip) IN
        CASE d.op = "none" ->
                /\ Return(FALSE)
                /\ UNCHANGED <<calls, zone>>
          [] d.op = "update" ->
                \E ok \in BOOLEAN, applied \in BOOLEAN :
                    /\ calls' = Append(calls, Call("update", cur.ZoneId,
                                                    update(cur, d.ID, ip), ok))
                    /\ zone' = IF ok \/ applied
                               THEN UpdateDNSRecord(zone, d.ID, update(cur, d.ID, ip))
                               ELSE zone
                    /\ Return(FALSE)
          [] d.op = "create" ->
                \E ok \in BOOLEAN, applied \in BOOLEAN :
                    /\ calls' = Append(calls, Call("create", cur.ZoneId,
                                                    create(cur, ip), ok))
                    /\ zone' = IF ok \/ applied
                               THEN CreateDNSRecord(zone, create(cur, ip))
                               ELSE zone
                    /\ Return(FALSE)
    /\ UNCHANGED <<env, refresh, updaters, idx, ip, existing, tickReady, sigPending, exitCode,
                   valid, pass, received, sigAtWait, attempted, fetchErr>>

\* lines 168-178 with update() and create(): the first record named Name
\* decides; at most one mutation is sent.  A call that reports an error may
\* or may not have been applied by the provider.
UpdateContentScan ==
    /\ pc = "scan"
    /\ LET d == Scan(existing, cur.Name, ip) IN
        CASE d.op = "none" ->
                /\ Return(FALSE)
                /\ UNCHANGED <<calls, zone, fetchErr>>
          [] d.op = "update" ->
                \E ok \in BOOLEAN, applied \in BOOLEAN :
                    /\ calls' = Append(calls, Call("update", cur.ZoneId,
                                                    update(cur, d.ID, ip), ok))
                    /\ zone' = IF ok \/ applied
                               THEN UpdateDNSRecord(zone, d.ID, update(cur, d.ID, ip))
                               ELSE zone
                    /\ Return(~ok)
          [] d.op = "create" ->
                \E ok \in BOOLEAN, applied \in BOOLEAN :
                    /\ calls' = Append(calls, Call("create", cur.ZoneId,
                                                    create(cur, ip), ok))
                    /\ zone' = IF ok \/ applied
                               THEN CreateDNSRecord(zone, create(cur, ip))
                               ELSE zone
                    /\ Return(~ok)
    /\ UNCHANGED <<env, refresh, updaters, idx, ip, existing, tickReady, sigPending, exitCode,
                   valid, pass, received, sigAtWait, attempted, fetchErr>>

\* line 121: neither channel is ready, the goroutine parks on both
SelectBlock ==
    /\ pc = "select"
    /\ ~tickReady /\ ~sigPending
    /\ pc' = "blocked"
    /\ UNCHANGED <<env, refresh, updaters, idx, ip, existing, calls, zone, tickReady, sigPending,
                   exitCode, valid, result, pass, received, sigAtWait, attempted, fetchErr>>

\* lines 122-123: the ticker case is chosen among the ready cases
SelectTicker ==
    /\ pc = "select"
    /\ tickReady
    /\ tickReady' = FALSE
    /\ received' = TRUE
    /\ pc' = "loop"
    /\ UNCHANGED <<env, refresh, updaters, idx, ip, existing, calls, zone, sigPending, exitCode,
                   valid, result, pass, sigAtWait, attempted, fetchErr>>

\* the cancel case without the exit: the signal is taken and the loop goes on
SelectCancelContinue ==
    /\ pc = "select"
    /\ sigPending
    /\ sigPending' = FALSE
    /\ pc' = "loop"
    /\ UNCHANGED <<env, refresh, updaters, idx, ip, existing, calls, zone, tickReady, exitCode,
                   valid, result, pass, received, sigAtWait, attempted, fetchErr>>

\* lines 125-126: the cancel case is chosen among the ready cases
SelectCancel ==
    /\ pc = "select"
    /\ sigPending
    /\ sigPending' = FALSE
    /\ pc' = "cancel"
    /\ UNCHANGED <<env, refresh, updaters, idx, ip, existing, calls, zone, tickReady, exitCode,
                   valid, result, pass, received, sigAtWait, attempted, fetchErr>>

\* the exit with a failure status, as log.Fatal would give
ExitStatus1 ==
    /\ pc = "cancel"
    /\ pc' = "exited"
    /\ exitCode' = 1
    /\ UNCHANGED <<env, refresh, updaters, idx, ip, existing, calls, zone, tickReady, sigPending,
                   valid, result, pass, received, sigAtWait, attempted, fetchErr>>

\* line 127: os.Exit(0)
Exit ==
    /\ pc = "cancel"
    /\ pc' = "exited"
    /\ exitCode' = 0
    /\ UNCHANGED <<env, refresh, updaters, idx, ip, existing, calls, zone, tickReady, sigPending,
                   valid, result, pass, received, sigAtWait, attempted, fetchErr>>

\* line 80: the timer sends on the ticker channel; a parked select takes the
\* tick at once, otherwise it is buffered, and dropped if one is buffered.
\* time.Tick returns a nil channel for a duration that is not positive, and
\* a nil channel never delivers
Tick ==
    /\ pc \notin {"config", "connect", "fatal", "exited"}
    /\ refresh > 0
    /\ IF pc = "blocked"
       THEN pc' = "loop" /\ received' = TRUE /\ tickReady' = tickReady
       ELSE pc' = pc /\ received' = received /\ tickReady' = TRUE
    /\ UNCHANGED <<env, refresh, updaters, idx, ip, existing, calls, zone, sigPending, exitCode,
                   valid, result, pass, sigAtWait, attempted, fetchErr>>

\* a signal handled by a goroutine of its own that stops the process at once
SignalAborts ==
    /\ pc \notin {"config", "connect", "fatal", "cancel", "exited"}
    /\ pc' = "cancel"
    /\ sigAtWait' = (pc = "blocked")
    /\ sigPending' = sigPending
    /\ UNCHANGED <<env, refresh, updaters, idx, ip, existing, calls, zone, tickReady, exitCode,
                   valid, result, pass, received, attempted, fetchErr>>

\* lines 81-82: SIGINT, SIGTERM or SIGQUIT is sent on the cancel channel; a
\* parked select takes it at once, otherwise it is buffered, and dropped if
\* one is buffered
Signal ==
    /\ pc \notin {"config", "connect", "fatal", "cancel", "exited"}
    /\ IF pc = "blocked"
       THEN pc' = "cancel" /\ sigAtWait' = TRUE /\ sigPending' = sigPending
       ELSE pc' = pc /\ sigAtWait' = sigAtWait /\ sigPending' = TRUE
    /\ UNCHANGED <<env, refresh, updaters, idx, ip, existing, calls, zone, tickReady, exitCode,
                   valid, result, pass, received, attempted, fetchErr>>

Next ==
    \/ ValidIp4
    \/ ValidIp6
    \/ BeginPass
    \/ Range
    \/ UpdateContentFetch
    \/ UpdateContentList
    \/ UpdateContentScan
    \/ SelectBlock
    \/ SelectTicker
    \/ SelectCancel
    \/ Exit
    \/ Tick
    \/ Signal

Spec == Init /\ [][Next]_vars

\* main() from its first line, in any environment
ConfigNext ==
    \/ LoadConfig
    \/ Connect
    \/ Next

ConfigSpec == ConfigInit /\ [][ConfigNext]_vars

\* the steps of main(): every network call returns and the goroutine runs
Program ==
    \/ ValidIp4 \/ ValidIp6 \/ BeginPass \/ Range
    \/ UpdateContentFetch \/ UpdateContentList \/ UpdateContentScan
    \/ SelectBlock \/ Exit

\* select chooses uniformly among the ready cases, so a case that is ready
\* again and again is chosen in the end
FairSpec == Spec /\ WF_vars(Program) /\ SF_vars(SelectCancel)

-----------------------------------------------------------------------------
(* The single-record program of main.go: one A record, the provider spoken  *)
(* to over HTTP.  Its positions are s_fetch, s_get, s_send, s_select,       *)
(* s_blocked, s_cancel and exited; it uses ip for the local external and    *)
(* existing for the local records.                                          *)

\* main.go lines 162-166: the variables the single-record program requires
SingleEnv ==
    [v \in {"CF_API_KEY", "CF_API_EMAIL", "CF_ZONE_ID", "REFRESH", "RECORD"} |->
        IF v = "REFRESH" THEN <<"3", "0">> ELSE <<"x">>]

\* main.go lines 68-80: GET, read the body, TrimSpace
externalIp == FetchIp

\* main.go lines 93-114: every record of the zone, of any type
getRecords(z) == z

\* main.go lines 122-130: POST to the collection unless a record has the
\* name; each record that has it appends its id to the URL and makes the
\* request a PUT
RECURSIVE updateRecordLoop(_, _, _)
updateRecordLoop(rs, name, acc) ==
    IF rs = <<>> THEN acc
    ELSE updateRecordLoop(Tail(rs), name,
            IF Head(rs).Name = name
            THEN [method |-> "PUT", path |-> Append(acc.path, Head(rs).ID)]
            ELSE acc)

\* main.go lines 132-136: the record that is sent
record(name, external) == DNSRecord(NoId, "A", name, external)

\* the provider's answer to the request: a POST creates, a PUT whose URL
\* names one record overwrites it, a PUT to any other path changes nothing
Serve(z, req, rec) ==
    IF req.method = "POST" THEN CreateDNSRecord(z, rec)
    ELSE IF Len(req.path) = 1 THEN UpdateDNSRecord(z, req.path[1], rec)
    ELSE z

\* main.go after lines 161-172 under a configuration that passed them
SingleInit ==
    /\ pc = "s_fetch"
    /\ env = SingleEnv
    /\ refresh = Atoi(TrimSpace(SingleEnv["REFRESH"])).n
    /\ updaters = <<>>
    /\ idx = 0
    /\ ip = <<>>
    /\ fetchErr = FALSE
    /\ existing = <<>>
    /\ calls = <<>>
    /\ zone \in InitZones
    /\ tickReady = FALSE
    /\ sigPending = FALSE
    /\ exitCode = NoExit
    /\ valid = [t \in Types |-> "unknown"]
    /\ result = [t \in Types |-> "none"]
    /\ attempted = {}
    /\ pass = "first"
    /\ received = FALSE
    /\ sigAtWait = FALSE

\* main.go lines 175-177 and 183-185: updateDomain returned, an error is
\* logged and main goes to the select
SingleReturn(err) ==
    /\ pc' = "s_select"
    /\ result' = [result EXCEPT !["A"] = IF err THEN "err" ELSE "ok"]

\* main.go lines 82-91: updateDomain fetches the external address
UpdateDomain ==
    /\ pc = "s_fetch"
    /\ \E r \in externalIp :
        /\ ip' = r.ip
        /\ fetchErr' = r.err
        /\ IF r.err THEN SingleReturn(TRUE) ELSE pc' = "s_get" /\ result' = result
    /\ existing' = <<>>
    /\ calls' = <<>>
    /\ UNCHANGED <<env, refresh, updaters, idx, zone, tickReady, sigPending,
                   exitCode, valid, attempted, pass, received, sigAtWait>>

\* main.go lines 117-120: updateRecord lists the zone
GetRecords ==
    /\ pc = "s_get"
    /\ \E ok \in BOOLEAN :
        /\ calls' = Append(calls, Call("list", zoneId, DNSRecord(NoId, "", "", <<>>), ok))
        /\ IF ok
           THEN existing' = getRecords(zone) /\ pc' = "s_send" /\ result' = result
           ELSE existing' = existing /\ SingleReturn(TRUE)
    /\ UNCHANGED <<env, refresh, updaters, idx, ip, fetchErr, zone, tickReady,
                   sigPending, exitCode, valid, attempted, pass, received, sigAtWait>>

\* main.go lines 122-157: the request is built and sent whatever the listed
\* records hold; only a transport error is returned, the status of the
\* answer is logged
UpdateRecord ==
    /\ pc = "s_send"
    /\ LET req == updateRecordLoop(existing, Name, [method |-> "POST", path |-> <<>>])
           rec == record(Name, ip)
       IN  \E ok \in BOOLEAN, applied \in BOOLEAN :
            /\ calls' = Append(calls,
                    [Call(IF req.method = "POST" THEN "create" ELSE "update",
                          zoneId, rec, ok)
                     EXCEPT !.ID = IF Len(req.path) = 1 THEN req.path[1] ELSE NoId])
            /\ zone' = IF applied THEN Serve(zone, req, rec) ELSE zone
            /\ SingleReturn(~ok)
    /\ UNCHANGED <<env, refresh, updaters, idx, ip, fetchErr, existing, tickReady,
                   sigPending, exitCode, valid, attempted, pass, received, sigAtWait>>

\* main.go line 180: no tick is buffered; the cancel channel has no buffer,
\* so nothing is ever waiting in it and the goroutine parks
SingleSelectBlock ==
    /\ pc = "s_select"
    /\ ~tickReady
    /\ pc' = "s_blocked"
    /\ UNCHANGED <<env, refresh, updaters, idx, ip, fetchErr, existing, calls, zone,
                   tickReady, sigPending, exitCode, valid, result, attempted, pass,
                   received, sigAtWait>>

\* main.go lines 181-183: a buffered tick is taken and updateDomain is called
SingleSelectTicker ==
    /\ pc = "s_select"
    /\ tickReady
    /\ tickReady' = FALSE
    /\ received' = TRUE
    /\ pass' = "later"
    /\ pc' = "s_fetch"
    /\ UNCHANGED <<env, refresh, updaters, idx, ip, fetchErr, existing, calls, zone,
                   sigPending, exitCode, valid, result, attempted, sigAtWait>>

\* main.go line 170: the timer sends on the ticker channel
SingleTick ==
    /\ pc \in {"s_fetch", "s_get", "s_send", "s_select", "s_blocked", "s_cancel"}
    /\ refresh > 0
    /\ IF pc = "s_blocked"
       THEN /\ pc' = "s_fetch" /\ received' = TRUE /\ pass' = "later"
            /\ tickReady' = tickReady
       ELSE /\ pc' = pc /\ received' = received /\ pass' = pass
            /\ tickReady' = TRUE
    /\ UNCHANGED <<env, refresh, updaters, idx, ip, fetchErr, existing, calls, zone,
                   sigPending, exitCode, valid, result, attempted, sigAtWait>>

\* main.go lines 171-172: signal.Notify does not block; on a channel without
\* a buffer the signal reaches main only while it is parked in the select
SingleSignal ==
    /\ pc = "s_blocked"
    /\ pc' = "s_cancel"
    /\ sigAtWait' = TRUE
    /\ UNCHANGED <<env, refresh, updaters, idx, ip, fetchErr, existing, calls, zone,
                   tickReady, sigPending, exitCode, valid, result, attempted, pass,
                   received>>

\* main.go lines 187-189
SingleExit ==
    /\ pc = "s_cancel"
    /\ pc' = "exited"
    /\ exitCode' = 0
    /\ UNCHANGED <<env, refresh, updaters, idx, ip, fetchErr, existing, calls, zone,
                   tickReady, sigPending, valid, result, attempted, pass, received,
                   sigAtWait>>

SingleNext ==
    \/ UpdateDomain
    \/ GetRecords
    \/ UpdateRecord
    \/ SingleSelectBlock
    \/ SingleSelectTicker
    \/ SingleTick
    \/ SingleSignal
    \/ SingleExit

SingleSpec == SingleInit /\ [][SingleNext]_vars

-----------------------------------------------------------------------------
(* Properties *)

IsMutation(c) == c.op \in {"create", "update"}

\* the first record of es named name, 0 if there is none
FirstMatch(es, name) ==
    IF \E i \in DOMAIN es : es[i].Name = name
    THEN CHOOSE i \in DOMAIN es :
            es[i].Name = name /\ \A j \in 1..(i - 1) : es[j].Name # name
    ELSE 0

\* the record of f at the provider holds addr
Synchronized(z, f, addr) ==
    LET es == DNSRecords(z, filter(f))
        m == FirstMatch(es, f.Name)
    IN  m # 0 /\ es[m].Content = addr

\* UpdateContent of the current updater has returned
Returned == pc = "range" /\ idx > 0

\* C1: in every UpdateContent call of an active lane the first provider call
\* is the list, made once the fetch has succeeded; it is followed by no call,
\* one create or one update, never by more than one mutation, and a mutation
\* is made only after a list that succeeded in the same call.
C1_ListThenAtMostOneMutation ==
    /\ Len(calls) <= 2
    /\ calls # <<>> => calls[1].op = "list"
    /\ Len(calls) = 2 => calls[1].ok /\ IsMutation(calls[2])
    /\ pc = "list" => calls = <<>>
    /\ pc = "scan" => Len(calls) = 1 /\ calls[1].ok
    /\ (Returned /\ ip # <<>>) => calls # <<>>
    /\ \A i \in DOMAIN calls : calls[i].Type = cur.Type /\ calls[i].ZoneId = cur.ZoneId

\* a pass with both lanes active in which a lane listed and then created
C1_Witness ==
    /\ Returned /\ Len(updaters) = 2
    /\ Len(calls) = 2 /\ calls[1].op = "list" /\ calls[2].op = "create"

\* C2: after a list that succeeded, UpdateContent creates {Type, Name, fetched
\* address} if no listed record has the updater's Name, updates the (first)
\* listed record of that Name by its identifier to the fetched address if its
\* Content differs, and makes no call and returns nil if its Content is equal.
C2_Decision ==
    (Returned /\ calls # <<>> /\ calls[1].ok) =>
        LET m == FirstMatch(existing, cur.Name) IN
        IF m = 0
        THEN /\ Len(calls) = 2
             /\ calls[2].op = "create"
             /\ calls[2].Type = cur.Type
             /\ calls[2].Name = cur.Name
             /\ calls[2].Content = ip
        ELSE IF existing[m].Content # ip
        THEN /\ Len(calls) = 2
             /\ calls[2].op = "update"
             /\ calls[2].ID = existing[m].ID
             /\ calls[2].Content = ip
        ELSE /\ Len(calls) = 1
             /\ result[cur.Type] = "ok"

\* the AAAA lane updated an existing record whose content differed
C2_Witness ==
    /\ Returned /\ cur.Type = "AAAA"
    /\ Len(calls) = 2 /\ calls[2].op = "update" /\ calls[2].ok
    /\ FirstMatch(existing, cur.Name) # 0
    /\ existing[FirstMatch(existing, cur.Name)].Content # ip

\* a successful UpdateContent leaves the lane's record equal to the fetched
\* address
SuccessSynchronizes ==
    (Returned /\ calls # <<>> /\ result[cur.Type] = "ok") =>
        Synchronized(zone, cur, ip)

\* with the lane's record equal to the fetched address, no step of
\* UpdateContent sends a mutation or changes the zone
SynchronizedNoMutation ==
    (pc \in {"list", "scan"} /\ Synchronized(zone, cur, ip)) =>
        /\ zone' = zone
        /\ \A i \in DOMAIN calls' : ~IsMutation(calls'[i])

\* C3: idempotence: a successful reconciliation leaves the remote record
\* synchronized, and a reconciliation that fetches the address the remote
\* record already holds sends no create and no update.
C3_Idempotent == []SuccessSynchronizes /\ [][SynchronizedNoMutation]_vars

\* a later pass found the record synchronized and returned after the list alone
C3_Witness ==
    /\ Returned /\ pass = "later"
    /\ result[cur.Type] = "ok"
    /\ Len(calls) = 1 /\ calls[1].ok
    /\ Synchronized(zone, cur, ip)

\* the updaters whose Valid() returned true, in the order of construction
ActiveLanes == SelectSeq(Lanes, LAMBDA f : valid[f.Type] = "yes")

ActiveTypes == {ActiveLanes[i].Type : i \in DOMAIN ActiveLanes}

\* validation is over
Started == pc \notin {"valid4", "valid6"}

\* a pass is over: the loop is at its wait point or beyond
PassOver == pc \in {"select", "blocked", "cancel", "exited"}

\* C4: a lane whose Valid() returned false is not among the updaters, is
\* never the lane being reconciled, has no UpdateContent result and makes no
\* provider call, in any state of the run.
C4_DisabledNeverRuns ==
    \A t \in Types :
        valid[t] = "no" =>
            /\ \A i \in DOMAIN updaters : updaters[i].Type # t
            /\ \A i \in DOMAIN calls : calls[i].Type # t
            /\ t \notin attempted
            /\ result[t] = "none"
            /\ (pc \in {"fetch", "list", "scan"} => cur.Type # t)

\* the IPv4 lane is disabled and the IPv6 lane calls the provider in a later
\* pass
C4_Witness ==
    /\ valid["A"] = "no" /\ pass = "later"
    /\ Returned /\ calls # <<>>

\* C5: after validation the updaters are exactly the lanes found valid, with
\* their type, zone and name, whatever their calls returned; every pass
\* attempts each of them, also one whose last attempt failed.
C5_ActiveStaysActive ==
    /\ Started => updaters = ActiveLanes
    /\ PassOver => attempted = ActiveTypes
    /\ (pc \in {"fetch", "list", "scan"}) => cur \in {ip4Updater, ip6Updater}

\* the IPv4 lane failed in the pass before and is being reconciled again
C5_Witness ==
    /\ pc = "list" /\ pass = "later"
    /\ cur = ip4Updater /\ result["A"] = "err"

\* after an UpdateContent that returned an error the loop goes on
ErrorKeepsLooping ==
    (Returned /\ result[cur.Type] = "err") =>
        /\ pc' \in {"range", "fetch", "select"}
        /\ updaters' = updaters

\* with both lanes active, a pass in which a lane failed attempted both
BothAttempted ==
    (PassOver /\ Len(updaters) = 2 /\ \E t \in Types : result[t] = "err") =>
        attempted = Types

\* C6: with both lanes active, an error of one lane in a pass does not keep
\* the other lane from being reconciled in that pass, does not end the loop,
\* and this holds in every later pass too.
C6_ErrorIsolation == []BothAttempted /\ [][ErrorKeepsLooping]_vars

\* a later pass in which the IPv4 lane failed and the IPv6 lane succeeded
C6_Witness ==
    /\ pc = "select" /\ pass = "later" /\ Len(updaters) = 2
    /\ result["A"] = "err" /\ result["AAAA"] = "ok"
    /\ attempted = Types

\* C7: a signal delivered while the select is blocked is taken by the select:
\* no pass begins after it, and the process exits with status 0.
C7_SignalAtWait ==
    /\ [](sigAtWait => (pc \in {"cancel", "exited"} /\ (pc = "exited" => exitCode = 0)))
    /\ (sigAtWait ~> (pc = "exited" /\ exitCode = 0))

\* the process has exited after a signal that found the select blocked
C7_Witness == sigAtWait /\ pc = "exited" /\ exitCode = 0 /\ pass = "later"

\* C8: once a signal has been delivered, the select does not go on to another
\* pass.
C8_NoPassAfterSignal ==
    [][(pc = "select" /\ sigPending) => pc' # "loop"]_vars

\* C9: every delivered signal leads to the exit with status 0, wherever the
\* program is when it arrives, also with a tick ready at every select.
C9_SignalLeadsToExit ==
    (sigPending \/ sigAtWait) ~> (pc = "exited" /\ exitCode = 0)

\* the select is reached with a signal and a tick both ready
C9_Witness == pc = "select" /\ sigPending /\ tickReady /\ pass = "later"

\* C10: validation is followed by the first pass; the wait point is reached
\* only after a pass, and no tick is received from the ticker before the
\* first pass is over.
C10_ImmediateFirstPass ==
    /\ PassOver => pass # "none"
    /\ received => (pass # "none" /\ (pass = "first" => pc = "loop"))
    /\ (Started /\ pass = "none") => pc = "loop"

\* the first pass is over, both lanes attempted, and the timer has not fired
C10_Witness ==
    /\ pc = "select" /\ pass = "first" /\ attempted = Types
    /\ ~received /\ ~tickReady

IPv4Literals == {<<"203.0.113.4">>}
IPv6Literals == {<<"2001:db8::1">>}

\* the fetch of the call in progress gave an IP literal of either family
FetchedAnIP == ~fetchErr /\ ip \in (IPv4Literals \cup IPv6Literals)

\* C12: Valid() returns true exactly when the fetch succeeded and the trimmed
\* result is an IP literal of either family; the family of the lane is not
\* looked at, and the lane is appended to the updaters exactly then.
C12_ValidIffParses ==
    /\ pc = "valid6" =>
        /\ valid["A"] = "yes" <=> FetchedAnIP
        /\ updaters = IF FetchedAnIP THEN <<ip4Updater>> ELSE <<>>
    /\ (pc = "loop" /\ pass = "none") =>
        /\ valid["AAAA"] = "yes" <=> FetchedAnIP
        /\ (\E i \in DOMAIN updaters : updaters[i] = ip6Updater) <=> FetchedAnIP

\* the IPv4 lane is active on an IPv6 address
C12_Witness ==
    /\ pc = "valid6" /\ ip \in IPv6Literals
    /\ valid["A"] = "yes" /\ updaters = <<ip4Updater>>

\* C13: when the fetch of UpdateContent fails, UpdateContent returns the
\* error without listing, creating or updating.
C13_FetchErrorNoCalls ==
    /\ pc \in {"list", "scan"} => ~fetchErr
    /\ (Returned /\ fetchErr) =>
        /\ calls = <<>>
        /\ existing = <<>>
        /\ result[cur.Type] = "err"

\* the fetch of the IPv6 lane failed in a later pass
C13_Witness ==
    /\ Returned /\ fetchErr /\ cur = ip6Updater /\ pass = "later"
    /\ calls = <<>> /\ result["AAAA"] = "err"

\* the records of es named name
Matches(es, name) == {i \in DOMAIN es : es[i].Name = name}

\* the list that succeeded holds more than one record of the updater's name
DuplicatesListed ==
    /\ Returned /\ calls # <<>> /\ calls[1].ok
    /\ Cardinality(Matches(existing, cur.Name)) > 1

\* with duplicates listed, the first of them alone decides and is the target
FirstMatchDecides ==
    DuplicatesListed =>
        LET first == existing[FirstMatch(existing, cur.Name)] IN
        /\ first.Content = ip => Len(calls) = 1 /\ result[cur.Type] = "ok"
        /\ first.Content # ip =>
            /\ Len(calls) = 2
            /\ calls[2].op = "update"
            /\ calls[2].ID = first.ID

\* the scan changes no record of the zone but the first match
OnlyFirstMatchMutated ==
    (pc = "scan" /\ FirstMatch(existing, cur.Name) # 0) =>
        \A i \in DOMAIN zone :
            zone[i].ID # existing[FirstMatch(existing, cur.Name)].ID =>
                (i \in DOMAIN zone' /\ zone'[i] = zone[i])

\* C14: when several listed records have the updater's name, the first in
\* the provider's order decides between no-op and update, an update targets
\* its identifier, and no later match is looked at or changed.
C14_FirstMatchOnly == []FirstMatchDecides /\ [][OnlyFirstMatchMutated]_vars

\* two records of the name were listed, the first equal to the fetched
\* address and the second not, and nothing was sent
C14_Witness ==
    /\ DuplicatesListed /\ Len(calls) = 1
    /\ existing[FirstMatch(existing, cur.Name)].Content = ip
    /\ \E i \in Matches(existing, cur.Name) : existing[i].Content # ip

\* the updaters whose UpdateContent has been entered in this pass
Entered == IF pc = "fetch" THEN idx - 1 ELSE idx

\* C15: in every pass the updaters are reconciled one after the other in the
\* order of the slice, IPv4 before IPv6: the lanes attempted are a prefix of
\* the slice, the IPv6 lane is entered only once the IPv4 lane has returned,
\* and all provider calls of an UpdateContent are of its own lane.
C15_Sequential ==
    /\ Started =>
        \A i, j \in DOMAIN updaters :
            i < j => (updaters[i].Type = "A" /\ updaters[j].Type = "AAAA")
    /\ (pc \in {"range", "fetch", "list", "scan"} /\ pass # "none") =>
        attempted = {updaters[i].Type : i \in 1..Entered}
    /\ ("AAAA" \in attempted /\ valid["A"] = "yes") =>
        ("A" \in attempted /\ idx = 2 /\ result["A"] # "none")
    /\ \A i \in DOMAIN calls : calls[i].Type = cur.Type

\* the IPv6 lane is listing after the IPv4 lane has returned in this pass
C15_Witness ==
    /\ pc = "list" /\ cur = ip6Updater /\ idx = 2
    /\ attempted = Types /\ result["A"] = "ok"

\* the process leaves the loop only from the select, and a signal that
\* arrives elsewhere is buffered without moving the program
ExitsOnlyAtWait ==
    /\ (pc' = "cancel" /\ pc # "cancel") => pc \in {"select", "blocked"}
    /\ (pc' = "exited" /\ pc # "exited") => pc = "cancel"
    /\ (sigPending' /\ ~sigPending) => pc' = pc

\* when the cancel case is taken the pass before it is complete
CancelAfterWholePass ==
    pc \in {"cancel", "exited"} =>
        /\ pass # "none"
        /\ attempted = ActiveTypes
        /\ idx = Len(updaters)
        /\ calls = <<>>

\* C16: a signal does not abort a pass: the cancel case is taken only at the
\* select, after every active lane of the pass has returned; not between a
\* list and its mutation, and not between the two lanes.
C16_NoAbortInFlight == []CancelAfterWholePass /\ [][ExitsOnlyAtWait]_vars

\* a signal is buffered while the IPv4 lane is between its list and its
\* mutation, with the IPv6 lane still to come
C16_Witness ==
    /\ pc = "scan" /\ sigPending /\ idx = 1 /\ Len(updaters) = 2
    /\ Scan(existing, cur.Name, ip).op # "none"

\* the record belongs to the lane whose UpdateContent is running
OfLane(r) == r.Type = cur.Type /\ r.Name = cur.Name

\* the records a step changed
Changed == {i \in DOMAIN zone : zone'[i] # zone[i]}

\* one step of the daemon leaves every record it is not about as it was: no
\* record is removed, a changed record is one of the running lane and keeps
\* its identifier, name and type, at most one record changes, and a new
\* record is of the running lane
FrameKept ==
    /\ Len(zone') >= Len(zone)
    /\ Len(zone') <= Len(zone) + 1
    /\ Cardinality(Changed) <= 1
    /\ Changed # {} => Len(zone') = Len(zone)
    /\ \A i \in Changed :
        /\ pc = "scan"
        /\ OfLane(zone[i])
        /\ zone'[i] = [zone[i] EXCEPT !.Content = ip]
        /\ zone[i].ID = Scan(existing, cur.Name, ip).ID
    /\ \A i \in DOMAIN zone' \ DOMAIN zone :
        /\ pc = "scan"
        /\ OfLane(zone'[i])
        /\ zone'[i].Content = ip

\* C18: a lane touches only records of its own name and type; an update
\* changes only the targeted record, whose identifier, name and type stay.
C18_Frame == [][FrameKept]_vars

\* the IPv4 lane has updated its record next to an IPv6 record of the same
\* name that holds another content
C18_Witness ==
    /\ Returned /\ cur = ip4Updater
    /\ Len(calls) = 2 /\ calls[2].op = "update" /\ calls[2].ok
    /\ \E i, j \in DOMAIN zone :
        /\ zone[i].ID = calls[2].ID /\ zone[i].Content = ip
        /\ zone[j].Type = "AAAA" /\ zone[j].Name = Name /\ zone[j].Content # ip

\* the zone holds at most one record per (name, type)
NoDuplicates(z) ==
    \A i, j \in DOMAIN z :
        (z[i].Name = z[j].Name /\ z[i].Type = z[j].Type) => i = j

\* a create is logged only by a call whose list held no record of the name
CreateOnlyWhenAbsent ==
    \A i \in DOMAIN calls :
        calls[i].op = "create" =>
            /\ \A k \in DOMAIN existing : existing[k].Name # cur.Name
            /\ \A j \in DOMAIN calls : calls[j].op = "create" => j = i

\* C19: a lane creates only in a pass whose list held no record of its name,
\* and a zone with at most one record per (name, type) keeps that through
\* every step, whether the provider reports the mutation as failed or not.
C19_NoDuplicateCreation ==
    []CreateOnlyWhenAbsent /\ [][NoDuplicates(zone) => NoDuplicates(zone')]_vars

\* a record the daemon created in an earlier pass is listed a tick later by
\* a pass that finds it current and leaves the zone alone
C19_Witness ==
    /\ Returned /\ pass = "later" /\ NoDuplicates(zone)
    /\ result[cur.Type] = "ok" /\ Len(calls) = 1
    /\ existing # <<>> /\ existing[1].ID > MaxInitRecords

\* the records of the zone with the name and type of f
LaneRecords(z, f) == {i \in DOMAIN z : z[i].Name = f.Name /\ z[i].Type = f.Type}

\* the zone holds exactly one record of f and its content is addr
Converged(z, f, addr) ==
    /\ Cardinality(LaneRecords(z, f)) = 1
    /\ \A i \in LaneRecords(z, f) : z[i].Content = addr

\* a call in which the fetch, the list and the mutation (if any) succeeded,
\* on a zone that held at most one record of the lane, leaves exactly one
\* record of the lane, holding the fetched address
SuccessConverges ==
    (/\ Returned /\ ~fetchErr /\ result[cur.Type] = "ok"
     /\ \A i \in DOMAIN calls : calls[i].ok
     /\ Cardinality(Matches(existing, cur.Name)) <= 1)
        => Converged(zone, cur, ip)

\* UpdateContent of f is past its fetch
InLane(f) ==
    /\ idx \in DOMAIN updaters
    /\ updaters[idx] = f
    /\ pc \in {"list", "scan", "range"}

\* a call of f fetched something else than addr, or one of its calls failed
Disturbed(f, addr) ==
    InLane(f) /\ (fetchErr \/ ip # addr \/ (pc = "range" /\ result[f.Type] = "err"))

\* from some pass on f fetches addr and its calls succeed, passes of f keep
\* coming, and the zone started with at most one record of f: then the record
\* of f comes to hold addr and keeps it
StableConverges(f, addr) ==
    (/\ Cardinality(LaneRecords(zone, f)) <= 1
     /\ <>[]~Disturbed(f, addr)
     /\ []<>(InLane(f) /\ pc = "range"))
        => <>[]Converged(zone, f, addr)

\* C20: convergence: a fully successful pass of an active lane over a zone
\* with at most one record of the lane leaves exactly one such record, equal
\* to the fetched address; and when the fetched address stays the same and
\* the calls succeed from some pass on, the record becomes and stays equal.
C20_Convergence ==
    /\ []SuccessConverges
    /\ \A k \in {1, 2} : \A addr \in IPLiterals : StableConverges(Lanes[k], addr)

\* a later pass of the IPv6 lane has created the record the zone lacked
C20_Witness ==
    /\ Returned /\ cur = ip6Updater /\ pass = "later" /\ ~fetchErr
    /\ Len(calls) = 2 /\ calls[2].op = "create" /\ calls[2].ok
    /\ result["AAAA"] = "ok"
    /\ Converged(zone, cur, ip)

\* every required variable is set and REFRESH is a positive integer
ConfigurationValid(e) ==
    /\ RequiredNames \subseteq DOMAIN e
    /\ ~Atoi(e[EnvVarRefresh]).err
    /\ Atoi(e[EnvVarRefresh]).n > 0

\* C11: with a required variable absent or a refresh interval that is not a
\* positive integer (0 and negative integers included) the process ends at
\* startup with a non-zero status: it never gets past the reading of the
\* configuration, so it makes no provider or address-source call and starts
\* no pass.
C11_InvalidConfigIsFatal ==
    ~ConfigurationValid(env) =>
        /\ pc \in {"config", "fatal"}
        /\ pc = "fatal" => exitCode > 0
        /\ calls = <<>> /\ attempted = {} /\ pass = "none"

\* updateRecord listed a record of the configured name whose content is the
\* address that was fetched, and has returned
SingleInSync ==
    /\ pc = "s_select" /\ ~fetchErr
    /\ calls # <<>> /\ calls[1].ok
    /\ \E i \in DOMAIN existing : existing[i].Name = Name /\ existing[i].Content = ip

\* C17: in the single-record program, when a listed record of the configured
\* name already holds the fetched address, reconciliation reports success
\* and sends no POST and no PUT.
C17_SingleNoOp ==
    SingleInSync =>
        /\ result["A"] = "ok"
        /\ \A i \in DOMAIN calls : ~IsMutation(calls[i])

====
